---- MODULE Spec2Model ----
(***************************************************************************)
(* UltraSocket client: the connection life cycle of UltraClient            *)
(* (packages/client/src/client.ts) and its offline MessageQueue            *)
(* (packages/client/src/queue.ts).                                         *)
(*                                                                         *)
(* Every callback of the client (a public method, a transport event, a     *)
(* timer expiry) runs to completion on one thread, so each is one action.  *)
(* The callbacks are written as operators over a record `c` that bundles   *)
(* the fields of the client, composed the way the code calls them.         *)
(***************************************************************************)
EXTENDS Integers, Sequences, FiniteSets, TLC

\* ---------------------------------------------------------------- bounds
MaxTransports == 3      \* WebSocket objects created in one behaviour
MaxEmits      == 3      \* emit() calls made by the application
MaxCapacity   == 2      \* largest MessageQueue capacity explored
MaxPings      == 1      \* PING frames recorded
MaxQueueOps   == 5      \* enqueue calls of the stand-alone queue harness
MaxFlushes    == 2      \* flush calls of the stand-alone queue harness
MaxErrors     == 2      \* errors reported by a failing connect() or an "error" event

\* ------------------------------------------------------ program constants
MaxEventBytes == 65535  \* 0xFFFF, the largest encodable event name

\* event-name byte lengths the application emits with: short, and too long
NameLens == {4, MaxEventBytes + 1}
\* values of options.maxReconnectAttempts explored (0 = unlimited)
AttemptLimits == {0, 1, 2}

Transports == 1..MaxTransports

VARIABLES
  options,          \* [autoReconnect, maxReconnectAttempts, binaryProtocol, urlValid]
  state,            \* ConnectionState
  stats,            \* ClientStats
  ws,               \* this.ws: 0 is null, else a transport
  readyState,       \* per WebSocket object: NONE (not created), CONNECTING, OPEN, CLOSING, CLOSED
  closedBy,         \* per CLOSING WebSocket object: the call site that invoked close() on it
  lastCloseOrigin,  \* closedBy of the object whose close event was delivered last
  reconnectTimer,   \* this.reconnectTimer holds a timer that is still pending
  connectionTimer,  \* this.connectionTimer holds a timer that is still pending
  pingTimer,        \* this.pingTimer holds a live interval
  stray,            \* pending timers whose handle was overwritten, per kind
  messageQueue,     \* MessageQueue.queue
  maxSize,          \* MessageQueue.maxSize
  sent,             \* the messages passed to ws.send by emit (calls that returned), in order
  pingsSent,        \* PING frames handed to ws.send
  errors,           \* calls of handleError
  reconnectNotified,\* runs of the reconnect-handler loop
  disconnectNotified,\* runs of the disconnect-handler loop
  nextId,           \* number of emit() calls made by the application
  emitRet,          \* return value of the last application emit()
  disconnectCalled, \* disconnect() has been called
  accepted,         \* queue harness: every entry ever enqueued, in order
  removed,          \* queue harness: ids evicted by enqueue or dropped by clear
  returned,         \* queue harness: the result of every flush(), in order
  pure,             \* queue harness: no flush() or clear() so far
  backoff,          \* delay harness: the options, the attempt number and the delay computed
  dispatch,         \* dispatch harness: the handlers of one notification and what became of it
  registry,         \* registry harness: on()/off() calls, the handler sets and the last inbound event
  codec,            \* codec harness: the input, the frame and the results of encodeMessage/decodeMessage
  server            \* the UltraServer end: its sockets and what it has sent to the client

vars == <<options, state, stats, ws, readyState, closedBy, lastCloseOrigin, reconnectTimer,
          connectionTimer, pingTimer, stray, messageQueue, maxSize, sent,
          pingsSent, errors, reconnectNotified, disconnectNotified, nextId,
          emitRet, disconnectCalled, accepted, removed, returned, pure,
          backoff, dispatch, registry, codec, server>>

harnessVars == <<accepted, removed, returned, pure>>

auxVars == <<backoff, dispatch, registry, codec, server>>

clientVars == <<options, state, stats, ws, readyState, closedBy, lastCloseOrigin,
                reconnectTimer, connectionTimer, pingTimer, stray, messageQueue,
                maxSize, sent, pingsSent, errors, reconnectNotified,
                disconnectNotified, nextId, emitRet, disconnectCalled>>

\* ------------------------------------------------------------ MessageQueue

\* A message is [id, nameLen, queued]: id is the identity of one emit() call
\* of the application, nameLen the UTF-8 length of its event name, and
\* queued tells a QueuedMessage (it has been through the queue) from a
\* message that comes straight from the application.

\* enqueue that tests "longer than maxSize" instead of "at least maxSize"
enqueueOffByOne(q, m) ==
  LET kept == IF Len(q) > maxSize THEN SubSeq(q, 2, Len(q)) ELSE q
  IN  Append(kept, [m EXCEPT !.queued = TRUE])

\* enqueue(event, data): drop the oldest entry when full, then append
enqueue(q, m) ==
  LET kept == IF Len(q) >= maxSize THEN SubSeq(q, 2, Len(q)) ELSE q
  IN  Append(kept, [m EXCEPT !.queued = TRUE])

Reverse(q) == [i \in 1..Len(q) |-> q[Len(q) + 1 - i]]

\* flush that hands the entries back newest first
flushReversed(q) == [messages |-> Reverse(q), queue |-> <<>>]

\* flush that forgets to empty the queue
flushKeepsQueue(q) == [messages |-> q, queue |-> q]

\* flush(): the entries returned and the queue left behind
flush(q) == [messages |-> q, queue |-> <<>>]

\* clear()
clear(q) == <<>>

size(q) == Len(q)

isEmpty(q) == Len(q) = 0

\* ------------------------------------------------------------ the client

\* the fields of the UltraClient instance, as one value
Self ==
  [options |-> options, state |-> state, stats |-> stats, ws |-> ws,
   readyState |-> readyState, closedBy |-> closedBy,
   reconnectTimer |-> reconnectTimer, connectionTimer |-> connectionTimer,
   pingTimer |-> pingTimer, stray |-> stray, messageQueue |-> messageQueue,
   sent |-> sent, pingsSent |-> pingsSent, errors |-> errors,
   reconnectNotified |-> reconnectNotified,
   disconnectNotified |-> disconnectNotified]

Commit(c) ==
  /\ options' = c.options
  /\ state' = c.state
  /\ stats' = c.stats
  /\ ws' = c.ws
  /\ readyState' = c.readyState
  /\ closedBy' = c.closedBy
  /\ reconnectTimer' = c.reconnectTimer
  /\ connectionTimer' = c.connectionTimer
  /\ pingTimer' = c.pingTimer
  /\ stray' = c.stray
  /\ messageQueue' = c.messageQueue
  /\ sent' = c.sent
  /\ pingsSent' = c.pingsSent
  /\ errors' = c.errors
  /\ reconnectNotified' = c.reconnectNotified
  /\ disconnectNotified' = c.disconnectNotified

\* WebSocket.close(): only a CONNECTING or OPEN socket starts closing
wsClose(c, t, site) ==
  IF t # 0 /\ c.readyState[t] \in {"CONNECTING", "OPEN"}
  THEN [c EXCEPT !.readyState[t] = "CLOSING", !.closedBy[t] = site]
  ELSE c

handleError(c) == [c EXCEPT !.errors = @ + 1]

clearConnectionTimeout(c) == [c EXCEPT !.connectionTimer = FALSE]

stopPingInterval(c) == [c EXCEPT !.pingTimer = FALSE]

\* setInterval into this.pingTimer; an interval already held there keeps running
startPingInterval(c) ==
  [c EXCEPT !.stray.ping = IF c.pingTimer THEN @ + 1 ELSE @,
            !.pingTimer = TRUE]

\* setTimeout into this.connectionTimer
setupConnectionTimeout(c) ==
  [c EXCEPT !.stray.connection = IF c.connectionTimer THEN @ + 1 ELSE @,
            !.connectionTimer = TRUE]

\* handleReconnect whose limit test lets one attempt too many through
handleReconnectOffByOne(c) ==
  IF ~c.options.autoReconnect THEN c
  ELSE IF c.options.maxReconnectAttempts > 0
          /\ c.state.reconnectAttempts > c.options.maxReconnectAttempts THEN c
  ELSE [c EXCEPT !.state.reconnecting = TRUE,
                 !.state.reconnectAttempts = @ + 1,
                 !.stats.reconnectAttempts = @ + 1,
                 !.reconnectNotified = @ + 1,
                 !.stray.reconnect = IF c.reconnectTimer THEN @ + 1 ELSE @,
                 !.reconnectTimer = TRUE]

handleReconnect(c) ==
  IF ~c.options.autoReconnect THEN c
  ELSE IF c.options.maxReconnectAttempts > 0
          /\ c.state.reconnectAttempts >= c.options.maxReconnectAttempts THEN c
  ELSE [c EXCEPT !.state.reconnecting = TRUE,
                 !.state.reconnectAttempts = @ + 1,
                 !.stats.reconnectAttempts = @ + 1,
                 !.reconnectNotified = @ + 1,
                 !.stray.reconnect = IF c.reconnectTimer THEN @ + 1 ELSE @,
                 !.reconnectTimer = TRUE]

handleClose(c) ==
  LET c1 == [c EXCEPT !.state.connected = FALSE, !.state.connecting = FALSE]
      c2 == clearConnectionTimeout(stopPingInterval(c1))
  IN  handleReconnect([c2 EXCEPT !.disconnectNotified = @ + 1])

\* the smallest WebSocket object not created yet (0 when the bound is used up)
FreshTransport(c) ==
  IF \E t \in Transports : c.readyState[t] = "NONE"
  THEN CHOOSE t \in Transports :
         /\ c.readyState[t] = "NONE"
         /\ \A u \in Transports : c.readyState[u] = "NONE" => t <= u
  ELSE 0

connect(c) ==
  IF c.state.connected \/ c.state.connecting THEN c
  ELSE LET c1 == [c EXCEPT !.state.connecting = TRUE]
       IN  IF ~c.options.urlValid
           THEN handleReconnect(handleError(c1))
           ELSE LET t == FreshTransport(c1)
                IN  setupConnectionTimeout(
                      [c1 EXCEPT !.ws = t, !.readyState[t] = "CONNECTING"])

\* connect() can run within the bound on WebSocket objects
CanConnect(c) ==
  \/ c.state.connected \/ c.state.connecting
  \/ ~c.options.urlValid /\ c.errors < MaxErrors
  \/ c.options.urlValid /\ FreshTransport(c) # 0

\* encodeMessage throws for an event name longer than 0xFFFF bytes
EncodeThrows(m) == m.nameLen > MaxEventBytes

\* emit(event, data): the client afterwards and the value returned.
\* ws.send throws on a socket that is still CONNECTING; on a CLOSING or
\* CLOSED socket it returns and the data is discarded by the platform.
emit(c, m) ==
  IF ~c.state.connected \/ c.ws = 0
  THEN [c |-> [c EXCEPT !.messageQueue = enqueue(@, m)], ret |-> FALSE]
  ELSE IF c.options.binaryProtocol /\ EncodeThrows(m)
  THEN [c |-> handleError(c), ret |-> FALSE]
  ELSE IF c.readyState[c.ws] = "CONNECTING"
  THEN [c |-> handleError(c), ret |-> FALSE]
  ELSE [c |-> [c EXCEPT !.sent = Append(@, m),
                        !.stats.messagesSent = @ + 1],
        ret |-> TRUE]

RECURSIVE EmitAll(_, _)
EmitAll(c, messages) ==
  IF messages = <<>> THEN c
  ELSE EmitAll(emit(c, Head(messages)).c, Tail(messages))

flushQueue(c) ==
  IF isEmpty(c.messageQueue) THEN c
  ELSE LET f == flush(c.messageQueue)
       IN  EmitAll([c EXCEPT !.messageQueue = f.queue], f.messages)

\* an "open" listener that forgets to reset state.reconnecting
\* an "open" listener that leaves the connection-timeout timer armed
onOpenKeepsTimeout(c) ==
  LET c2 == [c EXCEPT !.state.connected = TRUE,
                      !.state.connecting = FALSE,
                      !.state.reconnecting = FALSE,
                      !.state.reconnectAttempts = 0]
  IN  startPingInterval(flushQueue(c2))

onOpenKeepsReconnecting(c) ==
  LET c1 == clearConnectionTimeout(c)
      c2 == [c1 EXCEPT !.state.connected = TRUE,
                       !.state.connecting = FALSE,
                       !.state.reconnectAttempts = 0]
  IN  startPingInterval(flushQueue(c2))

\* the "open" listener (its loop over the connection handlers is
\* notifyLifecycle below; no handler is registered here)
onOpen(c) ==
  LET c1 == clearConnectionTimeout(c)
      c2 == [c1 EXCEPT !.state.connected = TRUE,
                       !.state.connecting = FALSE,
                       !.state.reconnecting = FALSE,
                       !.state.reconnectAttempts = 0]
  IN  startPingInterval(flushQueue(c2))

\* the callback of the connection-timeout timer
onConnectionTimeout(c) ==
  IF ~c.state.connected
  THEN handleReconnect(wsClose(c, c.ws, "timeout"))
  ELSE c

\* disconnect() that leaves options.autoReconnect as it was
disconnectKeepsAutoReconnect(c) ==
  LET c1 == [c EXCEPT !.reconnectTimer = FALSE]
      c2 == clearConnectionTimeout(stopPingInterval(c1))
      c3 == [wsClose(c2, c2.ws, "disconnect") EXCEPT !.ws = 0]
  IN  [c3 EXCEPT !.state.connected = FALSE,
                 !.state.connecting = FALSE,
                 !.state.reconnecting = FALSE]

disconnect(c) ==
  LET c1 == [c EXCEPT !.options.autoReconnect = FALSE,
                      !.reconnectTimer = FALSE]
      c2 == clearConnectionTimeout(stopPingInterval(c1))
      c3 == [wsClose(c2, c2.ws, "disconnect") EXCEPT !.ws = 0]
  IN  [c3 EXCEPT !.state.connected = FALSE,
                 !.state.connecting = FALSE,
                 !.state.reconnecting = FALSE]

\* the callback of the heartbeat interval (a send that throws on a
\* CONNECTING socket hands over nothing)
onPing(c) ==
  IF c.state.connected /\ c.ws # 0 /\ c.readyState[c.ws] # "CONNECTING"
  THEN [c EXCEPT !.pingsSent = @ + 1]
  ELSE c

\* ------------------------------------------------------------------ Init

InitClient ==
  /\ state = [connected |-> FALSE, connecting |-> FALSE,
              reconnecting |-> FALSE, reconnectAttempts |-> 0]
  /\ stats = [messagesSent |-> 0, messagesReceived |-> 0, bytesReceived |-> 0,
              reconnectAttempts |-> 0]
  /\ ws = 0
  /\ readyState = [t \in Transports |-> "NONE"]
  /\ closedBy = [t \in Transports |-> "none"]
  /\ lastCloseOrigin = "none"
  /\ reconnectTimer = FALSE
  /\ connectionTimer = FALSE
  /\ pingTimer = FALSE
  /\ stray = [reconnect |-> 0, connection |-> 0, ping |-> 0]
  /\ messageQueue = <<>>
  /\ sent = <<>>
  /\ pingsSent = 0
  /\ errors = 0
  /\ reconnectNotified = 0
  /\ disconnectNotified = 0
  /\ nextId = 0
  /\ emitRet = TRUE
  /\ disconnectCalled = FALSE
  /\ accepted = <<>>
  /\ removed = {}
  /\ returned = <<>>
  /\ pure = TRUE

\* the harnesses of the pure parts are idle in the specifications of the client
NoHarness ==
  /\ backoff = <<>>
  /\ dispatch = <<>>
  /\ registry = <<>>
  /\ codec = <<>>
  /\ server = <<>>

\* the constructor: options are the caller's, the queue has the default capacity
\* (1000 in the code, scaled down to MaxCapacity)
Init ==
  /\ InitClient
  /\ NoHarness
  /\ options \in [autoReconnect : BOOLEAN,
                  maxReconnectAttempts : AttemptLimits,
                  binaryProtocol : BOOLEAN,
                  urlValid : BOOLEAN]
  /\ maxSize = MaxCapacity

\* --------------------------------------------------------------- actions

Connect ==
  /\ CanConnect(Self)
  /\ Commit(connect(Self))
  /\ UNCHANGED <<maxSize, nextId, emitRet, disconnectCalled, lastCloseOrigin, harnessVars, auxVars>>

Disconnect ==
  /\ Commit(disconnect(Self))
  /\ disconnectCalled' = TRUE
  /\ UNCHANGED <<maxSize, nextId, emitRet, lastCloseOrigin, harnessVars, auxVars>>

Emit ==
  /\ nextId < MaxEmits
  /\ \E n \in NameLens :
       LET r == emit(Self, [id |-> nextId + 1, nameLen |-> n, queued |-> FALSE])
       IN  /\ Commit(r.c)
           /\ emitRet' = r.ret
  /\ nextId' = nextId + 1
  /\ UNCHANGED <<maxSize, disconnectCalled, lastCloseOrigin, harnessVars, auxVars>>

TransportOpen ==
  /\ \E t \in Transports :
       /\ readyState[t] = "CONNECTING"
       /\ Commit(onOpen([Self EXCEPT !.readyState[t] = "OPEN"]))
  /\ UNCHANGED <<maxSize, nextId, emitRet, disconnectCalled, lastCloseOrigin, harnessVars, auxVars>>

TransportClose ==
  /\ \E t \in Transports :
       /\ readyState[t] \in {"CONNECTING", "OPEN", "CLOSING"}
       /\ Commit(handleClose([Self EXCEPT !.readyState[t] = "CLOSED",
                                          !.closedBy[t] = "none"]))
       /\ lastCloseOrigin' = closedBy[t]
  /\ UNCHANGED <<maxSize, nextId, emitRet, disconnectCalled, harnessVars, auxVars>>

\* the "error" listener: the event is reported and nothing else happens
TransportError ==
  /\ errors < MaxErrors
  /\ \E t \in Transports : readyState[t] \in {"CONNECTING", "OPEN", "CLOSING"}
  /\ Commit(handleError(Self))
  /\ UNCHANGED <<maxSize, nextId, emitRet, disconnectCalled, lastCloseOrigin, harnessVars, auxVars>>

ConnectionTimerFire ==
  /\ \/ /\ connectionTimer
        /\ Commit(onConnectionTimeout([Self EXCEPT !.connectionTimer = FALSE]))
     \/ /\ stray.connection > 0
        /\ Commit(onConnectionTimeout([Self EXCEPT !.stray.connection = @ - 1]))
  /\ UNCHANGED <<maxSize, nextId, emitRet, disconnectCalled, lastCloseOrigin, harnessVars, auxVars>>

ReconnectTimerFire ==
  /\ CanConnect(Self)
  /\ \/ /\ reconnectTimer
        /\ Commit(connect([Self EXCEPT !.reconnectTimer = FALSE]))
     \/ /\ stray.reconnect > 0
        /\ Commit(connect([Self EXCEPT !.stray.reconnect = @ - 1]))
  /\ UNCHANGED <<maxSize, nextId, emitRet, disconnectCalled, lastCloseOrigin, harnessVars, auxVars>>

PingTimerFire ==
  /\ pingTimer \/ stray.ping > 0
  /\ pingsSent < MaxPings
  /\ Commit(onPing(Self))
  /\ UNCHANGED <<maxSize, nextId, emitRet, disconnectCalled, lastCloseOrigin, harnessVars, auxVars>>

Next ==
  \/ Connect
  \/ Disconnect
  \/ Emit
  \/ TransportOpen
  \/ TransportClose
  \/ TransportError
  \/ ConnectionTimerFire
  \/ ReconnectTimerFire
  \/ PingTimerFire

Spec == Init /\ [][Next]_vars

\* the connection life cycle alone: the application emits nothing
NextLifecycle ==
  \/ Connect
  \/ Disconnect
  \/ TransportOpen
  \/ TransportClose
  \/ TransportError
  \/ ConnectionTimerFire
  \/ ReconnectTimerFire
  \/ PingTimerFire

SpecLifecycle == Init /\ [][NextLifecycle]_vars

\* the offline queue and the emit path: a valid URL, no attempt limit, the
\* binary protocol (the text path of emit is the binary path without the
\* event-name limit, which short names already exercise), no heartbeat
\* and no transport error event (neither callback reads or writes anything
\* the emit path uses beyond the error count)
InitMessaging ==
  /\ InitClient
  /\ NoHarness
  /\ options \in [autoReconnect : BOOLEAN,
                  maxReconnectAttempts : {0},
                  binaryProtocol : {TRUE},
                  urlValid : {TRUE}]
  /\ maxSize = MaxCapacity

NextMessaging ==
  \/ Connect
  \/ Disconnect
  \/ Emit
  \/ TransportOpen
  \/ TransportClose
  \/ ConnectionTimerFire
  \/ ReconnectTimerFire

SpecMessaging == InitMessaging /\ [][NextMessaging]_vars

TypeOK ==
  /\ ws \in 0..MaxTransports
  /\ state.reconnectAttempts \in Nat
  /\ Len(messageQueue) <= maxSize

\* ------------------------------------------------- MessageQueue on its own

\* the options the constructor fills in
DefaultOptions ==
  [autoReconnect |-> TRUE, maxReconnectAttempts |-> 0,
   binaryProtocol |-> TRUE, urlValid |-> TRUE]

\* new MessageQueue(maxSize) for every capacity up to MaxCapacity
InitQueue ==
  /\ InitClient
  /\ NoHarness
  /\ options = DefaultOptions
  /\ maxSize \in 1..MaxCapacity

QEnqueue ==
  /\ Len(accepted) < MaxQueueOps
  /\ \E n \in NameLens :
       LET m == [id |-> Len(accepted) + 1, nameLen |-> n, queued |-> FALSE]
       IN  /\ messageQueue' = enqueue(messageQueue, m)
           /\ accepted' = Append(accepted, [m EXCEPT !.queued = TRUE])
  /\ removed' = IF Len(messageQueue) = maxSize
                THEN removed \cup {Head(messageQueue).id}
                ELSE removed
  /\ UNCHANGED <<options, state, stats, ws, readyState, closedBy, lastCloseOrigin,
                 reconnectTimer, connectionTimer, pingTimer, stray, maxSize,
                 sent, pingsSent, errors, reconnectNotified, disconnectNotified,
                 nextId, emitRet, auxVars,
                 disconnectCalled, returned, pure>>

QFlush ==
  /\ Len(returned) < MaxFlushes
  /\ LET f == flush(messageQueue)
     IN  /\ messageQueue' = f.queue
         /\ returned' = Append(returned, f.messages)
  /\ pure' = FALSE
  /\ UNCHANGED <<options, state, stats, ws, readyState, closedBy, lastCloseOrigin,
                 reconnectTimer, connectionTimer, pingTimer, stray, maxSize,
                 sent, pingsSent, errors, reconnectNotified, disconnectNotified,
                 nextId, emitRet, auxVars,
                 disconnectCalled, accepted, removed>>

QClear ==
  /\ ~isEmpty(messageQueue)
  /\ messageQueue' = clear(messageQueue)
  /\ removed' = removed \cup {messageQueue[i].id : i \in 1..size(messageQueue)}
  /\ pure' = FALSE
  /\ UNCHANGED <<options, state, stats, ws, readyState, closedBy, lastCloseOrigin,
                 reconnectTimer, connectionTimer, pingTimer, stray, maxSize,
                 sent, pingsSent, errors, reconnectNotified, disconnectNotified,
                 nextId, emitRet, auxVars,
                 disconnectCalled, accepted, returned>>

NextQueue ==
  \/ QEnqueue
  \/ QFlush
  \/ QClear

SpecQueue == InitQueue /\ [][NextQueue]_vars

\* ---------------------------------------------------------------- claims

\* a step in which a "close" event of some WebSocket object is delivered
CloseDelivered ==
  \E t \in Transports : readyState[t] # "CLOSED" /\ readyState'[t] = "CLOSED"

\* a step in which a new WebSocket object is created
TransportCreated ==
  \E t \in Transports : readyState[t] = "NONE" /\ readyState'[t] # "NONE"

\* a step in which a reconnect timer is armed
ReconnectTimerArmed ==
  \/ ~reconnectTimer /\ reconnectTimer'
  \/ stray'.reconnect > stray.reconnect

\* a step in which a pending reconnect timer expires and runs its callback
ReconnectTimerExpired ==
  \/ reconnectTimer /\ ~reconnectTimer' /\ disconnectCalled' = disconnectCalled
                     /\ ~CloseDelivered
  \/ stray'.reconnect < stray.reconnect

\* C1: once disconnect() has been called, the delivery of a transport close
\* event runs no reconnect attempt: neither reconnectAttempts counter grows,
\* the reconnect handlers are not notified and no reconnect timer is armed.
C1_CloseAfterDisconnectNoReconnect ==
  [][(disconnectCalled /\ CloseDelivered) =>
       /\ state'.reconnectAttempts <= state.reconnectAttempts
       /\ stats'.reconnectAttempts = stats.reconnectAttempts
       /\ reconnectNotified' = reconnectNotified
       /\ ~ReconnectTimerArmed]_vars

\* C1 witness: a client that did reconnect earlier has received the close
\* event of the transport that disconnect() closed.
C1_Witness ==
  /\ disconnectCalled
  /\ stats.reconnectAttempts > 0
  /\ lastCloseOrigin = "disconnect"

\* C2 (as claimed): once disconnect() has been called, a reconnect timer
\* that expires has no effect: no WebSocket object is created unless the
\* caller itself calls connect().
C2_NoStaleTimerAfterDisconnect ==
  [][(disconnectCalled /\ ReconnectTimerExpired) => ~TransportCreated]_vars

\* C3 (as claimed): connecting and reconnecting are never both true.
C3_NotConnectingAndReconnecting ==
  ~(state.connecting /\ state.reconnecting)

\* C4: whenever connected is true, connecting and reconnecting are false.
C4_ConnectedExcludesOthers ==
  state.connected => (~state.connecting /\ ~state.reconnecting)

\* C4 witness: connected again after at least one reconnect attempt.
C4_Witness ==
  /\ state.connected
  /\ stats.reconnectAttempts > 0

\* a step in which the connection-timeout callback aborts the transport
TimeoutAborted ==
  \E t \in Transports : closedBy[t] = "none" /\ closedBy'[t] = "timeout"

\* a step that delivers the close event of a transport a timeout aborted
AbortedCloseDelivered ==
  \E t \in Transports :
    closedBy[t] = "timeout" /\ readyState[t] = "CLOSING" /\ readyState'[t] = "CLOSED"

\* C5 (as claimed): a connection timeout runs the reconnect procedure once,
\* in the timeout callback, and the close event that the aborted transport
\* delivers afterwards does not run it a second time.
C5_OneReconnectPerTimeout ==
  [][/\ (TimeoutAborted /\ options.autoReconnect
          /\ (options.maxReconnectAttempts = 0
              \/ state.reconnectAttempts < options.maxReconnectAttempts))
        => /\ stats'.reconnectAttempts = stats.reconnectAttempts + 1
           /\ reconnectNotified' = reconnectNotified + 1
     /\ AbortedCloseDelivered
        => /\ stats'.reconnectAttempts = stats.reconnectAttempts
           /\ reconnectNotified' = reconnectNotified
           /\ ~ReconnectTimerArmed]_vars

\* a step in which the "open" event of a WebSocket object is handled
OpenHandled ==
  \E t \in Transports : readyState[t] = "CONNECTING" /\ readyState'[t] = "OPEN"

\* C6: the messages handed to the transport go out in the order the
\* application emitted them: queued messages are flushed oldest first, and a
\* message still waiting in the queue is never overtaken by one emitted
\* after it.
C6_FlushOrder ==
  /\ \A i, j \in 1..Len(sent) : i < j => sent[i].id < sent[j].id
  /\ \A i \in 1..Len(messageQueue), j \in 1..Len(sent) :
       sent[j].id < messageQueue[i].id

\* C6 witness: two queued messages were flushed on open, in order, followed
\* by a message emitted on the open connection.
C6_Witness ==
  /\ Len(sent) = 3
  /\ sent[1].queued /\ sent[2].queued /\ ~sent[3].queued

RECURSIVE Flatten(_)
Flatten(ss) == IF ss = <<>> THEN <<>> ELSE Head(ss) \o Flatten(Tail(ss))

Min(a, b) == IF a < b THEN a ELSE b

NotRemoved(e) == e.id \notin removed

\* C7: a queue of capacity maxSize that has only been enqueued into holds
\* exactly the last min(k, maxSize) of the k entries, in enqueue order; the
\* size never exceeds maxSize.
C7_QueueKeepsNewest ==
  /\ size(messageQueue) <= maxSize
  /\ pure =>
       LET k == Len(accepted)
       IN  messageQueue = SubSeq(accepted, k - Min(k, maxSize) + 1, k)

\* C7 witness: more entries were enqueued than the queue holds, twice over.
C7_Witness ==
  /\ pure
  /\ Len(accepted) >= maxSize + 2

\* C8: what the flushes returned so far, followed by what is still queued,
\* is exactly the entries enqueued and not evicted or cleared, in enqueue
\* order: flush returns everything, in order, empties the queue, and no
\* entry is returned twice.
C8_FlushReturnsAllOnce ==
  Flatten(returned) \o messageQueue = SelectSeq(accepted, NotRemoved)

\* C8 witness: two flushes, both of which returned entries.
C8_Witness ==
  /\ Len(returned) = 2
  /\ returned[1] # <<>>
  /\ Len(returned[2]) >= 2

\* C9 (as claimed): when an emit() of the application returns false, its
\* message is in the offline queue.
C9_FalseMeansQueued ==
  [][(nextId' = nextId + 1 /\ emitRet' = FALSE) =>
       \E i \in 1..Len(messageQueue') : messageQueue'[i].id = nextId']_vars

\* C10 (as claimed): when the handling of a transport-open completes, the
\* offline queue is empty and every message that was queued has been
\* passed to the transport's send.
C10_QueuedAreSentOnOpen ==
  [][OpenHandled =>
       /\ messageQueue' = <<>>
       /\ \A i \in 1..Len(messageQueue) :
            \E j \in 1..Len(sent') : sent'[j].id = messageQueue[i].id]_vars

\* ---------------------------------------------------------------- C11..C17

\* C11: right after the "open" event of a transport has been handled,
\* connected is true, connecting and reconnecting are false,
\* state.reconnectAttempts is 0, no connection-timeout timer is pending, the
\* heartbeat interval is running, and the cumulative stats.reconnectAttempts
\* has the value it had before.
C11_OpenResetsState ==
  [][OpenHandled =>
       /\ state'.connected
       /\ ~state'.connecting
       /\ ~state'.reconnecting
       /\ state'.reconnectAttempts = 0
       /\ ~connectionTimer' /\ stray'.connection = 0
       /\ pingTimer'
       /\ stats'.reconnectAttempts = stats.reconnectAttempts]_vars

\* C11 witness: a transport opened by a reconnect attempt is open: the
\* attempts of this outage are forgotten, the cumulative count is not.
C11_Witness ==
  /\ state.connected
  /\ state.reconnectAttempts = 0
  /\ stats.reconnectAttempts > 0
  /\ pingTimer
  /\ ~connectionTimer

\* a step in which the "error" listener runs (in SpecLifecycle with a
\* valid URL nothing else reports an error)
ErrorDelivered ==
  options.urlValid /\ errors' = errors + 1

\* handleReconnect would go past its two early returns
ReconnectAllowed ==
  /\ options.autoReconnect
  /\ \/ options.maxReconnectAttempts = 0
     \/ state.reconnectAttempts < options.maxReconnectAttempts

\* C12 (as claimed): a transport close event and equally a transport error
\* event stop the heartbeat, clear the connection-timeout timer, set
\* connected and connecting to false, notify the disconnect handlers and
\* then run the reconnect procedure when it is allowed.
C12_CloseAndErrorTearDown ==
  [][(CloseDelivered \/ ErrorDelivered) =>
       /\ ~state'.connected
       /\ ~state'.connecting
       /\ ~pingTimer'
       /\ ~connectionTimer'
       /\ disconnectNotified' = disconnectNotified + 1
       /\ ReconnectAllowed =>
            /\ stats'.reconnectAttempts = stats.reconnectAttempts + 1
            /\ reconnectNotified' = reconnectNotified + 1
            /\ ReconnectTimerArmed]_vars

C14_SingleReconnectTimer ==
  [][/\ stray'.reconnect = 0
     /\ stats'.reconnectAttempts # stats.reconnectAttempts =>
          /\ stats'.reconnectAttempts = stats.reconnectAttempts + 1
          /\ state'.reconnectAttempts = state.reconnectAttempts + 1
          /\ reconnectNotified' = reconnectNotified + 1]_vars

\* C16 (as claimed): a client has at most one heartbeat interval: none
\* runs besides the one held in the pingTimer handle.
C16_SingleHeartbeatTimer ==
  stray.ping = 0

\* C17 (as claimed): a PING frame is sent only while connected is true, and
\* no heartbeat interval is running in a state where connected is false.
C17_HeartbeatOnlyWhileConnected ==
  [][/\ pingsSent' > pingsSent => state.connected
     /\ ~state'.connected => (~pingTimer' /\ stray'.ping = 0)]_vars

\* ------------------------------------------------------- reconnect backoff

\* The delay is a JavaScript number. The options explored make every value
\* an exact dyadic fraction (a double holds each of them exactly); a delay
\* is kept here as a reduced fraction [num, den]. The powers of the
\* multiplier outgrow the integers of the model checker, so their numerator
\* and denominator are kept as sequences of base-LimbBase digits, least
\* significant first.
RECURSIVE GCD(_, _)
GCD(a, b) == IF b = 0 THEN a ELSE GCD(b, a % b)

Rat(n, d) == [num |-> n \div GCD(n, d), den |-> d \div GCD(n, d)]

RatMul(x, y) == Rat(x.num * y.num, x.den * y.den)

RatLeq(x, y) == x.num * y.den <= y.num * x.den

LimbBase == 10000

\* the digits of x * m + carry
RECURSIVE BigMul(_, _, _)
BigMul(x, m, carry) ==
  IF x = <<>>
  THEN IF carry = 0 THEN <<>>
       ELSE <<carry % LimbBase>> \o BigMul(<<>>, m, carry \div LimbBase)
  ELSE LET v == Head(x) * m + carry
       IN  <<v % LimbBase>> \o BigMul(Tail(x), m, v \div LimbBase)

\* x <= y, for digit sequences without leading zeros
RECURSIVE BigLeq(_, _)
BigLeq(x, y) ==
  IF Len(x) # Len(y) THEN Len(x) < Len(y)
  ELSE IF x = <<>> THEN TRUE
  ELSE IF x[Len(x)] # y[Len(y)] THEN x[Len(x)] < y[Len(y)]
  ELSE BigLeq(SubSeq(x, 1, Len(x) - 1), SubSeq(y, 1, Len(y) - 1))

RECURSIVE BigValue(_)
BigValue(x) == IF x = <<>> THEN 0 ELSE Head(x) + LimbBase * BigValue(Tail(x))

\* m ** k as digits
RECURSIVE BigPower(_, _)
BigPower(m, k) == IF k = 0 THEN <<1>> ELSE BigMul(BigPower(m, k - 1), m, 0)

\* reconnectBackoff ** k, numerator and denominator as digits
Power(r, k) == [num |-> BigPower(r.num, k), den |-> BigPower(r.den, k)]

\* Math.min(base * p, cap) for a power p: the cap as soon as the product
\* reaches it, else the product itself (which then fits an integer)
MinWithCap(base, p, cap) ==
  LET g == GCD(base, cap)
  IN  IF BigLeq(BigMul(p.den, cap \div g, 0), BigMul(p.num, base \div g, 0))
      THEN Rat(cap, 1)
      ELSE Rat(base * BigValue(p.num), BigValue(p.den))

\* consecutive failed attempts explored (the spec's example goes up to 20)
MaxAttemptNo == 20

\* the delay options explored: the defaults of the constructor and
\* neighbours of them (base delay, multiplier, cap)
DelayOptions ==
  [reconnectDelay : {500, 1000},
   reconnectBackoff : {Rat(1, 1), Rat(3, 2), Rat(2, 1)},
   maxReconnectDelay : {10000, 30000}]

DefaultDelayOptions ==
  [reconnectDelay |-> 1000, reconnectBackoff |-> Rat(3, 2),
   maxReconnectDelay |-> 30000]

\* the delay computed with the exponent one too high
reconnectDelayFromAttempts(o, attempts) ==
  MinWithCap(o.reconnectDelay, Power(o.reconnectBackoff, attempts),
             o.maxReconnectDelay)

\* Math.min(reconnectDelay * reconnectBackoff ** (attempts - 1), maxReconnectDelay),
\* attempts being state.reconnectAttempts after its increment
reconnectDelayOf(o, attempts) ==
  MinWithCap(o.reconnectDelay, Power(o.reconnectBackoff, attempts - 1),
             o.maxReconnectDelay)

\* a client whose every connection attempt fails: no attempt made yet
InitBackoff ==
  /\ InitClient
  /\ options = DefaultOptions
  /\ maxSize = MaxCapacity
  /\ backoff \in [options : DelayOptions, reconnectAttempts : {0}, delay : {Rat(0, 1)}]
  /\ dispatch = <<>>
  /\ registry = <<>>
  /\ codec = <<>>
  /\ server = <<>>

\* one more run of handleReconnect: the counter, then the delay of the timer
ScheduleReconnect ==
  /\ backoff.reconnectAttempts < MaxAttemptNo
  /\ backoff' = [backoff EXCEPT
                   !.reconnectAttempts = @ + 1,
                   !.delay = reconnectDelayOf(backoff.options, backoff.reconnectAttempts + 1)]
  /\ UNCHANGED <<clientVars, harnessVars, dispatch, registry, codec, server>>

NextBackoff == ScheduleReconnect

SpecBackoff == InitBackoff /\ [][NextBackoff]_vars

\* C15: the delay of attempt n is min(reconnectDelay * reconnectBackoff^(n-1),
\* maxReconnectDelay): attempt 1 waits exactly reconnectDelay, each further
\* attempt waits the previous delay times the multiplier or the cap,
\* whichever is smaller, so the delay never decreases (multiplier >= 1) and
\* never exceeds maxReconnectDelay; with 1000, 1.5 and 30000 attempts 1, 2
\* and 3 wait 1000, 1500 and 2250 and attempt 20 waits exactly 30000.
C15_BackoffDelay ==
  [][backoff'.reconnectAttempts = backoff.reconnectAttempts + 1 =>
       LET o == backoff.options
           n == backoff'.reconnectAttempts
           d == backoff'.delay
           cap == Rat(o.maxReconnectDelay, 1)
           grown == RatMul(backoff.delay, o.reconnectBackoff)
       IN  /\ n = 1 => d = Rat(o.reconnectDelay, 1)
           /\ n > 1 => d = (IF RatLeq(cap, grown) THEN cap ELSE grown)
           /\ n > 1 => RatLeq(backoff.delay, d)
           /\ RatLeq(d, cap)
           /\ o = DefaultDelayOptions =>
                /\ n = 1 => d = Rat(1000, 1)
                /\ n = 2 => d = Rat(1500, 1)
                /\ n = 3 => d = Rat(2250, 1)
                /\ n = 20 => d = Rat(30000, 1)]_vars

\* C15 witness: with the default options the 20th attempt in a row has been
\* scheduled, at the cap.
C15_Witness ==
  /\ backoff # <<>>
  /\ backoff.options = DefaultDelayOptions
  /\ backoff.reconnectAttempts = 20
  /\ backoff.delay = Rat(30000, 1)

\* ------------------------------------------------------- handler dispatch

MaxHandlers      == 3   \* handlers registered for the notification dispatched
MaxErrorHandlers == 2   \* handlers registered for "error"

\* what a handler does when it is called: return (a value or a promise that
\* resolves), throw, or return a promise that rejects
Behaviours == {"returns", "throws", "rejects"}

\* notifications that run a loop over handlers, and captures without one
HandlerKinds == {"connect", "disconnect", "reconnect", "event"}

FailureKinds == {"decodeFailure", "transportError", "sendFailure"}

HandlerLists == UNION {[1..n -> Behaviours] : n \in 0..MaxHandlers}

\* handleError that stays silent when no error handler is registered
deliverErrorSilently(d) ==
  IF d.errorHandlers = 0 THEN d
  ELSE [d EXCEPT !.reports = Append(@, [to |-> 1..d.errorHandlers, console |-> FALSE])]

\* handleError: console.error when the set is empty, else every handler of
\* the set is called with the error
deliverError(d) ==
  IF d.errorHandlers = 0
  THEN [d EXCEPT !.reports = Append(@, [to |-> {}, console |-> TRUE])]
  ELSE [d EXCEPT !.reports = Append(@, [to |-> 1..d.errorHandlers, console |-> FALSE])]

RECURSIVE deliverErrors(_, _)
deliverErrors(d, k) == IF k = 0 THEN d ELSE deliverErrors(deliverError(d), k - 1)

\* for (const handler of handlers) Promise.resolve(handler(x)).catch(...):
\* a handler that throws ends the loop before Promise.resolve is reached, a
\* rejected promise reaches the catch callback later. From handler i on:
\* how many handlers were called, how many rejections, whether one threw.
RECURSIVE runHandlers(_, _)
runHandlers(hs, i) ==
  IF i > Len(hs) THEN [invoked |-> i - 1, rejected |-> 0, threw |-> FALSE]
  ELSE IF hs[i] = "throws" THEN [invoked |-> i, rejected |-> 0, threw |-> TRUE]
  ELSE LET r == runHandlers(hs, i + 1)
       IN  [r EXCEPT !.rejected = @ + (IF hs[i] = "rejects" THEN 1 ELSE 0)]

\* handleMessage: a frame that fails to decode, or triggerEvent inside the
\* try block, whose catch reports what a handler throws
handleMessage(d) ==
  IF d.kind = "decodeFailure" THEN [deliverError(d) EXCEPT !.done = TRUE]
  ELSE LET r == runHandlers(d.handlers, 1)
           d1 == [d EXCEPT !.done = TRUE, !.invoked = r.invoked]
       IN  deliverErrors(d1, r.rejected + (IF r.threw THEN 1 ELSE 0))

\* the loops over the connect, disconnect and reconnect handlers: nothing
\* around them catches what a handler throws
notifyLifecycle(d) ==
  LET r == runHandlers(d.handlers, 1)
      d1 == [d EXCEPT !.done = TRUE, !.invoked = r.invoked, !.uncaught = r.threw]
  IN  deliverErrors(d1, r.rejected)

\* one notification about to be dispatched, in a client with some error handlers
InitDispatch ==
  /\ InitClient
  /\ options = DefaultOptions
  /\ maxSize = MaxCapacity
  /\ backoff = <<>>
  /\ registry = <<>>
  /\ codec = <<>>
  /\ server = <<>>
  /\ \E k \in HandlerKinds \cup FailureKinds, hs \in HandlerLists,
        n \in 0..MaxErrorHandlers :
       /\ k \in FailureKinds => hs = <<>>
       /\ dispatch = [kind |-> k, handlers |-> hs, errorHandlers |-> n,
                      done |-> FALSE, invoked |-> 0, reports |-> <<>>,
                      uncaught |-> FALSE]

\* the "message" listener
InboundFrame ==
  /\ ~dispatch.done
  /\ dispatch.kind \in {"event", "decodeFailure"}
  /\ dispatch' = handleMessage(dispatch)
  /\ UNCHANGED <<clientVars, harnessVars, backoff, registry, codec, server>>

\* the handler loop of the "open" listener, of handleClose and of handleReconnect
LifecycleNotification ==
  /\ ~dispatch.done
  /\ dispatch.kind \in {"connect", "disconnect", "reconnect"}
  /\ dispatch' = notifyLifecycle(dispatch)
  /\ UNCHANGED <<clientVars, harnessVars, backoff, registry, codec, server>>

\* the "error" listener and the catch block of emit() and send()
CapturedFailure ==
  /\ ~dispatch.done
  /\ dispatch.kind \in {"transportError", "sendFailure"}
  /\ dispatch' = [deliverError(dispatch) EXCEPT !.done = TRUE]
  /\ UNCHANGED <<clientVars, harnessVars, backoff, registry, codec, server>>

NextDispatch ==
  \/ InboundFrame
  \/ LifecycleNotification
  \/ CapturedFailure

SpecDispatch == InitDispatch /\ [][NextDispatch]_vars

\* the handlers of the notification that fail
Failing(hs) == {i \in 1..Len(hs) : hs[i] # "returns"}

\* C18 (as claimed): when a notification is dispatched to several handlers
\* and some of them fail, by throwing or by returning a promise that
\* rejects, every registered handler is still called and every failure is
\* handed to handleError.
C18_FailingHandlerIsolated ==
  (dispatch.done /\ dispatch.kind \in HandlerKinds) =>
    /\ dispatch.invoked = Len(dispatch.handlers)
    /\ Len(dispatch.reports) = Cardinality(Failing(dispatch.handlers))

\* the errors the client captures in one dispatch: a failed decode, a
\* transport error, a failed send, every rejection of a handler that was
\* called, and what an event handler throws
Captured(d) ==
  IF d.kind \in FailureKinds THEN 1
  ELSE Cardinality({i \in 1..d.invoked : d.handlers[i] = "rejects"})
       + (IF d.kind = "event" /\ d.invoked > 0 /\ d.handlers[d.invoked] = "throws"
          THEN 1 ELSE 0)

MaxRegistryOps == 4   \* on() and off() calls made by the application
MaxInbound     == 2   \* inbound EVENT frames dispatched

\* the names on() and off() route to the dedicated handler sets
ReservedNames == {"connect", "disconnect", "error", "reconnect"}

\* the event names the application and the server use here
EventNames == {"chat", "news", "connect"}

\* handler functions of the application
HandlerIds == {1, 2}

\* Set.add and Set.delete: a Set iterates in insertion order
SetAdd(set, h) ==
  IF \E i \in 1..Len(set) : set[i] = h THEN set ELSE Append(set, h)

SetDelete(set, h) == SelectSeq(set, LAMBDA x : x # h)

\* on(event, handler); a name never set in the eventHandlers Map is the empty Set here
on(reg, e, h) ==
  IF e \in ReservedNames
  THEN [reg EXCEPT !.lifecycleHandlers[e] = SetAdd(@, h)]
  ELSE [reg EXCEPT !.eventHandlers[e] = SetAdd(@, h)]

\* off(event, handler)
off(reg, e, h) ==
  IF e \in ReservedNames
  THEN [reg EXCEPT !.lifecycleHandlers[e] = SetDelete(@, h)]
  ELSE [reg EXCEPT !.eventHandlers[e] = SetDelete(@, h)]

\* triggerEvent that looks a lifecycle name up among the lifecycle handlers
triggerEventAnyChannel(reg, e) ==
  LET set == IF e \in ReservedNames THEN reg.lifecycleHandlers[e]
             ELSE IF e \in DOMAIN reg.eventHandlers THEN reg.eventHandlers[e] ELSE <<>>
      hs == [i \in 1..Len(set) |->
               IF set[i] \in reg.throwing THEN "throws" ELSE "returns"]
      r == runHandlers(hs, 1)
  IN  [reg EXCEPT !.inbound = @ + 1,
                  !.event = e,
                  !.invoked = SubSeq(set, 1, r.invoked),
                  !.reported = IF r.threw THEN 1 ELSE 0]

\* triggerEvent(event, data) as handleMessage calls it: the handlers of the
\* Map entry, none for a name the Map does not hold
triggerEvent(reg, e) ==
  LET set == IF e \in DOMAIN reg.eventHandlers THEN reg.eventHandlers[e] ELSE <<>>
      hs == [i \in 1..Len(set) |->
               IF set[i] \in reg.throwing THEN "throws" ELSE "returns"]
      r == runHandlers(hs, 1)
  IN  [reg EXCEPT !.inbound = @ + 1,
                  !.event = e,
                  !.invoked = SubSeq(set, 1, r.invoked),
                  !.reported = IF r.threw THEN 1 ELSE 0]

\* a client with no handler registered; some handler functions of the
\* application throw when called
InitRegistry ==
  /\ InitClient
  /\ options = DefaultOptions
  /\ maxSize = MaxCapacity
  /\ backoff = <<>>
  /\ dispatch = <<>>
  /\ codec = <<>>
  /\ server = <<>>
  /\ \E t \in SUBSET HandlerIds :
       registry = [throwing |-> t,
                   eventHandlers |-> [e \in EventNames \ ReservedNames |-> <<>>],
                   lifecycleHandlers |-> [e \in ReservedNames |-> <<>>],
                   since |-> [x \in EventNames \X HandlerIds |-> 0],
                   calls |-> 0, inbound |-> 0, event |-> "",
                   invoked |-> <<>>, reported |-> 0]

\* the application calls on(e, h); since[e, h] remembers the call that
\* registered h for e, if h was not registered for e already
On ==
  /\ registry.calls < MaxRegistryOps
  /\ \E e \in EventNames, h \in HandlerIds :
       registry' = [on(registry, e, h) EXCEPT
                      !.calls = @ + 1,
                      !.since[<<e, h>>] = IF @ = 0 THEN registry.calls + 1 ELSE @]
  /\ UNCHANGED <<clientVars, harnessVars, backoff, dispatch, codec, server>>

\* the application calls off(e, h)
Off ==
  /\ registry.calls < MaxRegistryOps
  /\ \E e \in EventNames, h \in HandlerIds :
       registry' = [off(registry, e, h) EXCEPT
                      !.calls = @ + 1,
                      !.since[<<e, h>>] = 0]
  /\ UNCHANGED <<clientVars, harnessVars, backoff, dispatch, codec, server>>

\* an EVENT frame named e arrives
InboundEvent ==
  /\ registry.inbound < MaxInbound
  /\ \E e \in EventNames : registry' = triggerEvent(registry, e)
  /\ UNCHANGED <<clientVars, harnessVars, backoff, dispatch, codec, server>>

NextRegistry ==
  \/ On
  \/ Off
  \/ InboundEvent

SpecRegistry == InitRegistry /\ [][NextRegistry]_vars

\* the handlers of H in the order of their stamps
RECURSIVE ByStamp(_, _)
ByStamp(H, stamp) ==
  IF H = {} THEN <<>>
  ELSE LET h == CHOOSE x \in H : \A y \in H : stamp[x] <= stamp[y]
       IN  <<h>> \o ByStamp(H \ {h}, stamp)

\* the event handlers currently registered for e, in registration order
\* (a reserved name has lifecycle handlers, no event handlers)
Registered(reg, e) ==
  IF e \in ReservedNames THEN <<>>
  ELSE ByStamp({h \in HandlerIds : reg.since[<<e, h>>] > 0},
               [h \in HandlerIds |-> reg.since[<<e, h>>]])

\* C19 (as claimed): after any on()/off() calls an inbound event named E
\* calls exactly the distinct handlers currently registered for E, each
\* once and in registration order, no handler of another event, and with
\* no handler for E nothing is called and no error is reported.
C19_InboundCallsRegistered ==
  [][registry'.inbound = registry.inbound + 1 =>
       /\ registry'.invoked = Registered(registry, registry'.event)
       /\ Registered(registry, registry'.event) = <<>> => registry'.reported = 0]_vars

\* ------------------------------------------------------------- wire codec

\* A JavaScript string is a sequence of UTF-16 code units, a buffer a
\* sequence of bytes.
IsHighSurrogate(u) == u >= 55296 /\ u <= 56319

IsLowSurrogate(u) == u >= 56320 /\ u <= 57343

IsContinuation(b) == b >= 128 /\ b <= 191

\* the UTF-8 bytes of one code point
Utf8(cp) ==
  IF cp < 128 THEN <<cp>>
  ELSE IF cp < 2048 THEN <<192 + (cp \div 64), 128 + (cp % 64)>>
  ELSE IF cp < 65536
       THEN <<224 + (cp \div 4096), 128 + ((cp \div 64) % 64), 128 + (cp % 64)>>
  ELSE <<240 + (cp \div 262144), 128 + ((cp \div 4096) % 64),
         128 + ((cp \div 64) % 64), 128 + (cp % 64)>>

\* TextEncoder.encode, unit by unit: a surrogate pair is one code point, a
\* surrogate without its partner becomes U+FFFD
RECURSIVE EncodeUnits(_)
EncodeUnits(s) ==
  IF s = <<>> THEN <<>>
  ELSE IF IsHighSurrogate(s[1]) /\ Len(s) >= 2 /\ IsLowSurrogate(s[2])
       THEN Utf8(65536 + (s[1] - 55296) * 1024 + (s[2] - 56320))
            \o EncodeUnits(SubSeq(s, 3, Len(s)))
  ELSE IF IsHighSurrogate(s[1]) \/ IsLowSurrogate(s[1])
       THEN Utf8(65533) \o EncodeUnits(Tail(s))
  ELSE Utf8(s[1]) \o EncodeUnits(Tail(s))

\* TextEncoder.encode (an ASCII string is its own encoding)
TextEncode(s) ==
  IF \A i \in 1..Len(s) : s[i] < 128 THEN s ELSE EncodeUnits(s)

\* the code points of a UTF-8 byte sequence; a byte that starts no
\* well-formed sequence becomes U+FFFD
RECURSIVE DecodePoints(_)
DecodePoints(b) ==
  IF b = <<>> THEN <<>>
  ELSE LET n == Len(b)
           two == (b[1] - 192) * 64 + (b[2] - 128)
           three == (b[1] - 224) * 4096 + (b[2] - 128) * 64 + (b[3] - 128)
           four == (b[1] - 240) * 262144 + (b[2] - 128) * 4096
                   + (b[3] - 128) * 64 + (b[4] - 128)
       IN  IF b[1] < 128 THEN <<b[1]>> \o DecodePoints(Tail(b))
           ELSE IF b[1] >= 194 /\ b[1] <= 223 /\ n >= 2 /\ IsContinuation(b[2])
                THEN <<two>> \o DecodePoints(SubSeq(b, 3, n))
           ELSE IF /\ b[1] >= 224 /\ b[1] <= 239 /\ n >= 3
                   /\ IsContinuation(b[2]) /\ IsContinuation(b[3])
                   /\ three >= 2048
                   /\ ~IsHighSurrogate(three) /\ ~IsLowSurrogate(three)
                THEN <<three>> \o DecodePoints(SubSeq(b, 4, n))
           ELSE IF /\ b[1] >= 240 /\ b[1] <= 244 /\ n >= 4
                   /\ IsContinuation(b[2]) /\ IsContinuation(b[3])
                   /\ IsContinuation(b[4])
                   /\ four >= 65536 /\ four <= 1114111
                THEN <<four>> \o DecodePoints(SubSeq(b, 5, n))
           ELSE <<65533>> \o DecodePoints(Tail(b))

\* code points as UTF-16 code units
RECURSIVE ToUnits(_)
ToUnits(cps) ==
  IF cps = <<>> THEN <<>>
  ELSE IF cps[1] >= 65536
       THEN <<55296 + ((cps[1] - 65536) \div 1024),
              56320 + ((cps[1] - 65536) % 1024)>>
            \o ToUnits(Tail(cps))
  ELSE <<cps[1]>> \o ToUnits(Tail(cps))

\* new TextDecoder().decode: UTF-8, not fatal, and (ignoreBOM being false)
\* a byte order mark at the start is dropped
TextDecode(b) ==
  IF \A i \in 1..Len(b) : b[i] < 128 THEN b
  ELSE LET cps == DecodePoints(b)
       IN  ToUnits(IF cps # <<>> /\ cps[1] = 65279 THEN Tail(cps) ELSE cps)

\* Uint8Array.slice(from, to) with 0-based bounds: the end is clamped
Slice(b, from, to) == SubSeq(b, from + 1, IF to < Len(b) THEN to ELSE Len(b))

\* ASCII text
Ascii ==
  [jsonOpen |-> <<123, 34, 106, 115, 111, 110, 34, 58>>,
   metaOpen |-> <<44, 34, 109, 101, 116, 97, 34, 58, 123, 34, 118, 97, 108, 117, 101, 115, 34, 58, 91, 34>>,
   metaClose |-> <<34, 93, 125>>,
   close |-> <<125>>,
   null |-> <<110, 117, 108, 108>>,
   fortyTwo |-> <<52, 50>>,
   epoch |-> <<34, 49, 57, 55, 48, 45, 48, 49, 45, 48, 49, 84, 48, 48, 58, 48, 48, 58, 48, 48, 46, 48, 48, 48, 90, 34>>,
   undefined |-> <<117, 110, 100, 101, 102, 105, 110, 101, 100>>,
   Date |-> <<68, 97, 116, 101>>,
   none |-> <<>>]

\* the payloads explored: undefined, null, the number 42 and new Date(0)
Payloads == {"undefined", "null", "fortyTwo", "epoch"}

\* superjson serialize: the JSON-compatible value and the annotation that
\* tells what it stands for
serialize(v) ==
  CASE v = "undefined" -> [json |-> "null", meta |-> "undefined"]
    [] v = "null"      -> [json |-> "null", meta |-> "none"]
    [] v = "fortyTwo"  -> [json |-> "fortyTwo", meta |-> "none"]
    [] v = "epoch"     -> [json |-> "epoch", meta |-> "Date"]

\* superjson deserialize
deserialize(doc) ==
  CASE doc.meta = "undefined" -> "undefined"
    [] doc.meta = "Date"      -> doc.json
    [] doc.meta = "none"      -> doc.json

WrapperDocs == {serialize(v) : v \in Payloads}

\* JSON.stringify of a wrapper document, as bytes of ASCII text
JsonStringify(doc) ==
  Ascii.jsonOpen \o Ascii[doc.json]
  \o (IF doc.meta = "none" THEN <<>>
      ELSE Ascii.metaOpen \o Ascii[doc.meta] \o Ascii.metaClose)
  \o Ascii.close

\* JSON.parse succeeds on the text of a wrapper document (any other text
\* explored is no JSON at all)
JsonParses(text) == \E doc \in WrapperDocs : JsonStringify(doc) = text

JsonParse(text) == CHOOSE doc \in WrapperDocs : JsonStringify(doc) = text

NoMessage == [ok |-> FALSE, error |-> "", type |-> 0,
              hasEvent |-> FALSE, event |-> <<>>,
              hasData |-> FALSE, data |-> "undefined", text |-> <<>>]

Thrown(message) == [NoMessage EXCEPT !.error = message]

\* encodeMessage that writes the length field little-endian
encodeMessageLittleEndian(event, data) ==
  LET eventBytes == TextEncode(event)
      dataBytes == TextEncode(JsonStringify(serialize(data)))
  IN  IF Len(eventBytes) > MaxEventBytes
      THEN [ok |-> FALSE, error |-> "Event name too long", frame |-> <<>>]
      ELSE [ok |-> TRUE, error |-> "",
            frame |-> <<1, (Len(eventBytes) % 256), Len(eventBytes) \div 256>>
                      \o eventBytes \o dataBytes]

\* encodeMessage: the frame, or the error thrown
encodeMessage(event, data) ==
  LET eventBytes == TextEncode(event)
      dataBytes == TextEncode(JsonStringify(serialize(data)))
  IN  IF Len(eventBytes) > MaxEventBytes
      THEN [ok |-> FALSE, error |-> "Event name too long", frame |-> <<>>]
      ELSE [ok |-> TRUE, error |-> "",
            frame |-> <<1, Len(eventBytes) \div 256, (Len(eventBytes) % 256)>>
                      \o eventBytes \o dataBytes]

\* the EVENT branch with the truncation test off by one
decodeEventOffByOne(buffer) ==
  IF Len(buffer) < 3 THEN Thrown("Invalid EVENT message: missing event length")
  ELSE LET eventLength == buffer[2] * 256 + buffer[3]
           event == TextDecode(Slice(buffer, 3, 3 + eventLength))
           dataJson == TextDecode(Slice(buffer, 3 + eventLength, Len(buffer)))
       IN  IF Len(buffer) < 2 + eventLength
           THEN Thrown("Invalid EVENT message: truncated event name")
           ELSE IF Len(dataJson) = 0
                THEN [NoMessage EXCEPT !.ok = TRUE, !.type = 1, !.hasEvent = TRUE,
                                       !.event = event, !.hasData = TRUE]
           ELSE IF ~JsonParses(dataJson) THEN Thrown("Invalid SuperJSON data")
           ELSE [NoMessage EXCEPT !.ok = TRUE, !.type = 1, !.hasEvent = TRUE,
                                  !.event = event, !.hasData = TRUE,
                                  !.data = deserialize(JsonParse(dataJson))]

\* decodeMessage, the EVENT branch
decodeEvent(buffer) ==
  IF Len(buffer) < 3 THEN Thrown("Invalid EVENT message: missing event length")
  ELSE LET eventLength == buffer[2] * 256 + buffer[3]
           event == TextDecode(Slice(buffer, 3, 3 + eventLength))
           dataJson == TextDecode(Slice(buffer, 3 + eventLength, Len(buffer)))
       IN  IF Len(buffer) < 3 + eventLength
           THEN Thrown("Invalid EVENT message: truncated event name")
           ELSE IF Len(dataJson) = 0
                THEN [NoMessage EXCEPT !.ok = TRUE, !.type = 1, !.hasEvent = TRUE,
                                       !.event = event, !.hasData = TRUE]
           ELSE IF ~JsonParses(dataJson) THEN Thrown("Invalid SuperJSON data")
           ELSE [NoMessage EXCEPT !.ok = TRUE, !.type = 1, !.hasEvent = TRUE,
                                  !.event = event, !.hasData = TRUE,
                                  !.data = deserialize(JsonParse(dataJson))]

\* decodeMessage: the ParsedMessage, or the error thrown (the data of an
\* ERROR frame, a string, is the field text)
decodeMessage(buffer) ==
  IF Len(buffer) < 1 THEN Thrown("Invalid message: buffer too small")
  ELSE IF buffer[1] \notin {1, 2, 3, 4} THEN Thrown("Invalid message type")
  ELSE IF buffer[1] \in {2, 3}
       THEN [NoMessage EXCEPT !.ok = TRUE, !.type = buffer[1], !.error = ""]
  ELSE IF buffer[1] = 4
       THEN [NoMessage EXCEPT !.ok = TRUE, !.type = 4, !.error = "",
                              !.hasData = TRUE,
                              !.text = TextDecode(Slice(buffer, 1, Len(buffer)))]
  ELSE decodeEvent(buffer)

\* isBinaryProtocol that takes every small tag for one of the protocol
isBinaryProtocolAnyTag(data) ==
  IF Len(data) < 1 THEN FALSE ELSE data[1] <= 4

isBinaryProtocol(data) ==
  IF Len(data) < 1 THEN FALSE ELSE data[1] \in {1, 2, 3, 4}

createPing == <<2>>

createPong == <<3>>

\* the code units of the names explored: a, e-acute, the byte order mark
\* U+FEFF, and the two halves of the surrogate pair of U+1F600
NameUnits == {97, 233, 65279, 55357, 56832}

MaxNameLen == 2

\* the bytes of the buffers explored: the four tags, other small bytes, a
\* letter and 0xFF
RawBytes == {0, 1, 2, 3, 4, 5, 97, 255}

MaxBufferLen == 3

SeqsUpTo(S, n) == UNION {[1..k -> S] : k \in 0..n}

\* names of n letters a, on both sides of a length that needs the second
\* byte of the length field and on both sides of the limit
LongNames == {[i \in 1..n |-> 97] : n \in {255, 256, MaxEventBytes, MaxEventBytes + 1}}

\* an EVENT frame whose payload is no JSON text, and an ERROR frame
ExtraBuffers == {<<1, 0, 1, 97, 123>>, <<4, 111, 111, 112, 115>>}

\* what encodeMessage is called with, or the buffer that decodeMessage and
\* isBinaryProtocol are called with
InitCodec ==
  /\ InitClient
  /\ options = DefaultOptions
  /\ maxSize = MaxCapacity
  /\ backoff = <<>>
  /\ dispatch = <<>>
  /\ registry = <<>>
  /\ server = <<>>
  /\ \/ \E input \in (SeqsUpTo(NameUnits, MaxNameLen) \X Payloads)
                         \cup (LongNames \X {"undefined"}) :
          codec = [origin |-> "application", phase |-> "encode",
                   event |-> input[1], data |-> input[2], buffer |-> <<>>,
                   encoded |-> [ok |-> FALSE, error |-> "", frame |-> <<>>],
                   decoded |-> NoMessage, recognized |-> FALSE]
     \/ \E b \in SeqsUpTo(RawBytes, MaxBufferLen) \cup ExtraBuffers :
          codec = [origin |-> "network", phase |-> "decode",
                   event |-> <<>>, data |-> "undefined", buffer |-> b,
                   encoded |-> [ok |-> FALSE, error |-> "", frame |-> <<>>],
                   decoded |-> NoMessage, recognized |-> FALSE]

\* encodeMessage(event, data): the frame goes to the peer unless it throws
EncodeMessage ==
  /\ codec.phase = "encode"
  /\ LET encoded == encodeMessage(codec.event, codec.data)
     IN  codec' = [codec EXCEPT
                     !.encoded = encoded,
                     !.buffer = encoded.frame,
                     !.phase = IF encoded.ok THEN "decode" ELSE "rejected"]
  /\ UNCHANGED <<clientVars, harnessVars, backoff, dispatch, registry, server>>

\* the receiver's isBinaryProtocol(buffer) and decodeMessage(buffer)
DecodeMessage ==
  /\ codec.phase = "decode"
  /\ codec' = [codec EXCEPT
                 !.recognized = isBinaryProtocol(codec.buffer),
                 !.decoded = decodeMessage(codec.buffer),
                 !.phase = "decoded"]
  /\ UNCHANGED <<clientVars, harnessVars, backoff, dispatch, registry, server>>

NextCodec == EncodeMessage \/ DecodeMessage

SpecCodec == InitCodec /\ [][NextCodec]_vars

\* the frame of the state was decoded
Decoded == codec.phase = "decoded"

\* the name declared by the length field of an EVENT frame of 3 bytes or more
DeclaredLength == codec.buffer[2] * 256 + codec.buffer[3]

\* C21: for every event name whose encoding fits the 16-bit length field and
\* every payload, undefined included, decoding the encoded frame yields an
\* EVENT message with the same name and an equal payload.
C21_RoundTrip ==
  (Decoded /\ codec.origin = "application")
    => /\ codec.decoded.ok
       /\ codec.decoded.type = 1
       /\ codec.decoded.hasEvent
       /\ codec.decoded.event = codec.event
       /\ codec.decoded.data = codec.data

\* C22: an EVENT frame shorter than 3 bytes fails to decode with the
\* missing-length error, and one whose declared name length exceeds the bytes
\* after the 3-byte header fails with the truncation error; neither returns
\* a message.
C22_TruncatedEventRejected ==
  (Decoded /\ codec.buffer # <<>> /\ codec.buffer[1] = 1)
    => /\ Len(codec.buffer) < 3
            => /\ ~codec.decoded.ok
               /\ codec.decoded.error = "Invalid EVENT message: missing event length"
       /\ (Len(codec.buffer) >= 3 /\ DeclaredLength > Len(codec.buffer) - 3)
            => /\ ~codec.decoded.ok
               /\ codec.decoded.error = "Invalid EVENT message: truncated event name"

C22_Witness ==
  /\ Decoded
  /\ codec.buffer = <<1, 0, 5>>
  /\ ~codec.decoded.ok
  /\ codec.decoded.error = "Invalid EVENT message: truncated event name"

\* C23: decoding the empty buffer fails with the buffer-too-small error,
\* decoding a buffer whose first byte is none of 0x01..0x04 fails with the
\* unrecognized-tag error, and isBinaryProtocol is false for exactly these
\* buffers.
C23_UnknownTagRejected ==
  Decoded
    => /\ codec.buffer = <<>>
            => /\ ~codec.decoded.ok
               /\ codec.decoded.error = "Invalid message: buffer too small"
       /\ (codec.buffer # <<>> /\ codec.buffer[1] \notin 1..4)
            => /\ ~codec.decoded.ok
               /\ codec.decoded.error = "Invalid message type"
       /\ codec.recognized <=> (codec.buffer # <<>> /\ codec.buffer[1] \in 1..4)

C23_Witness ==
  /\ Decoded
  /\ codec.buffer = <<255, 0>>
  /\ ~codec.recognized
  /\ codec.decoded.error = "Invalid message type"

\* C24: encodeMessage fails with the size-limit error and produces no frame
\* when the UTF-8 encoding of the name is longer than 65535 bytes; for every
\* shorter name the 2-byte big-endian length field of the frame is the byte
\* length of the name.
C24_NameLengthLimit ==
  (codec.origin = "application" /\ codec.phase # "encode")
    => IF Len(TextEncode(codec.event)) > 65535
       THEN /\ ~codec.encoded.ok
            /\ codec.encoded.error = "Event name too long"
            /\ codec.encoded.frame = <<>>
            /\ codec.phase = "rejected"
       ELSE /\ codec.encoded.ok
            /\ codec.encoded.frame[2] * 256 + codec.encoded.frame[3]
                 = Len(TextEncode(codec.event))
            /\ codec.encoded.frame[2] \in 0..255
            /\ codec.encoded.frame[3] \in 0..255

C24_Witness ==
  /\ codec.phase = "rejected"
  /\ Len(codec.event) = 65536
  /\ codec.encoded.error = "Event name too long"

\* ------------------------------------------- retrying and stale transports

\* a transport whose connection attempt is over eventually says so
AttemptResolved ==
  /\ TransportOpen \/ TransportClose
  /\ \E t \in Transports : readyState[t] = "CONNECTING" /\ readyState'[t] # "CONNECTING"

\* a transport on which close() was called eventually delivers its close event
ClosingCompleted ==
  /\ TransportClose
  /\ \E t \in Transports : readyState[t] = "CLOSING" /\ readyState'[t] = "CLOSED"

\* the life cycle with the scheduling of the platform: a timer that is due
\* runs its callback, and a transport delivers the events it owes
SpecLifecycleFair ==
  /\ Init
  /\ [][NextLifecycle]_vars
  /\ WF_vars(ReconnectTimerFire)
  /\ WF_vars(ConnectionTimerFire)
  /\ WF_vars(AttemptResolved)
  /\ WF_vars(ClosingCompleted)

\* automatic reconnection without a limit on the attempts
RetriesForever == options.autoReconnect /\ options.maxReconnectAttempts = 0

\* a transport closed, a connection attempt timed out, or connect() failed
\* to open the transport
TransportFailed ==
  \/ errors > 0
  \/ \E t \in Transports : readyState[t] = "CLOSED" \/ closedBy[t] = "timeout"

\* a transport is live or owes its close event, or a timer is pending whose
\* callback can start an attempt
AttemptPending ==
  \/ \E t \in Transports : readyState[t] \in {"CONNECTING", "OPEN", "CLOSING"}
  \/ reconnectTimer \/ stray.reconnect > 0
  \/ connectionTimer \/ stray.connection > 0

\* C25: with autoReconnect and maxReconnectAttempts = 0 no transport failure
\* (a close, a connection timeout, a failure to open the transport inside
\* connect()) makes the client stop retrying: it never stays forever in a
\* state with no transport attempt in flight and no timer that can start one.
C25_NeverStopsRetrying ==
  []<>((RetriesForever /\ TransportFailed) => AttemptPending)

\* the close event of a transport that disconnect() or the connection timeout
\* closed is delivered while a later transport is the current one
StaleCloseDelivered ==
  \E t \in Transports :
    /\ readyState[t] = "CLOSING" /\ readyState'[t] = "CLOSED"
    /\ closedBy[t] # "none"
    /\ ws \notin {0, t}
    /\ readyState[ws] \in {"CONNECTING", "OPEN"}

\* C27: the close event of a superseded transport changes nothing of the
\* current connection: connected and connecting keep their values, the
\* heartbeat and the connection-timeout timer stay as they are and no
\* reconnect is scheduled.
C27_StaleCloseIgnored ==
  [][StaleCloseDelivered
       => /\ state'.connected = state.connected
          /\ state'.connecting = state.connecting
          /\ pingTimer' = pingTimer
          /\ connectionTimer' = connectionTimer
          /\ ~ReconnectTimerArmed
          /\ state'.reconnectAttempts = state.reconnectAttempts]_vars

\* the transports that are connecting or open
LiveTransports == {t \in Transports : readyState[t] \in {"CONNECTING", "OPEN"}}

\* C28: connect() while connected or connecting changes nothing, and so at
\* most one transport is connecting or open at any time.
C28_SingleLiveTransport ==
  /\ (state.connected \/ state.connecting) => connect(Self) = Self
  /\ Cardinality(LiveTransports) <= 1

\* C29: reconnecting = true implies that a reconnect timer is pending or that
\* a connection attempt is in progress; after the last allowed attempt has
\* failed the snapshot no longer reports reconnecting = true.
C29_ReconnectingMeansRetrying ==
  state.reconnecting
    => \/ reconnectTimer \/ stray.reconnect > 0
       \/ state.connecting
       \/ ws # 0 /\ readyState[ws] = "CONNECTING"

\* ------------------------------------------------------- inbound messages

MaxMessages == 1

\* event names as JavaScript strings
Spelling ==
  [chat |-> <<99, 104, 97, 116>>,
   news |-> <<110, 101, 119, 115>>,
   connect |-> <<99, 111, 110, 110, 101, 99, 116>>,
   disconnect |-> <<100, 105, 115, 99, 111, 110, 110, 101, 99, 116>>,
   error |-> <<101, 114, 114, 111, 114>>,
   reconnect |-> <<114, 101, 99, 111, 110, 110, 101, 99, 116>>]

\* the name a string spells ("" stands for a string that is none of them,
\* for which no handler is registered)
EventOf(units) ==
  IF \E n \in DOMAIN Spelling : Spelling[n] = units
  THEN CHOOSE n \in DOMAIN Spelling : Spelling[n] = units
  ELSE ""

\* JSON.stringify(serialize({event, data})) for the number 42 as data
MessageText(n) ==
  <<123, 34, 106, 115, 111, 110, 34, 58, 123, 34, 101, 118, 101, 110, 116, 34, 58, 34>> \o Spelling[n] \o <<34, 44, 34, 100, 97, 116, 97, 34, 58, 52, 50, 125, 125>>

\* the text is that of such a message
MessageParses(text) == \E n \in DOMAIN Spelling : MessageText(n) = text

MessageParse(text) == CHOOSE n \in DOMAIN Spelling : MessageText(n) = text

\* JSON.stringify({event, data}), without serialize, for the number 42 as data
PlainText(n) ==
  <<123, 34, 101, 118, 101, 110, 116, 34, 58, 34>> \o Spelling[n] \o <<34, 44, 34, 100, 97, 116, 97, 34, 58, 52, 50, 125>>

\* JSON.parse(text): the document, which has the key json when it is the
\* text of a serialized message, or a SyntaxError (any other text explored
\* is no JSON at all)
JsonParseText(text) ==
  IF MessageParses(text)
  THEN [ok |-> TRUE, wrapped |-> TRUE, event |-> MessageParse(text)]
  ELSE IF \E n \in DOMAIN Spelling : PlainText(n) = text
  THEN [ok |-> TRUE, wrapped |-> FALSE,
        event |-> CHOOSE n \in DOMAIN Spelling : PlainText(n) = text]
  ELSE [ok |-> FALSE, wrapped |-> FALSE, event |-> ""]

\* deserialize(document) is what the document holds under json: undefined
\* for a document without that key, and reading .event of undefined throws
deserializeText(doc) ==
  [defined |-> doc.wrapped, event |-> IF doc.wrapped THEN doc.event ELSE ""]

\* triggerEvent inside the try block of handleMessage: what a handler throws
\* is caught and reported
dispatchEvent(c, reg, e) ==
  LET r == triggerEvent(reg, e)
  IN  [c |-> IF r.reported > 0 THEN handleError(c) ELSE c, reg |-> r]

\* the catch block of handleMessage that also tears the connection down
onDecodeErrorClosing(c) == handleClose(handleError(c))

\* the catch block of handleMessage
onDecodeError(c) == handleError(c)

\* the "message" listener and handleMessage: data is an ArrayBuffer (binary)
\* or a string
onMessage(c, reg, data) ==
  LET c1 == [c EXCEPT !.stats.messagesReceived = @ + 1]
      binary == c.options.binaryProtocol /\ data.binary
      c2 == IF binary THEN [c1 EXCEPT !.stats.bytesReceived = @ + Len(data.content)]
            ELSE c1
      quiet == [reg EXCEPT !.inbound = @ + 1, !.event = "",
                           !.invoked = <<>>, !.reported = 0]
      parsed == decodeMessage(data.content)
      text == IF data.binary THEN TextDecode(data.content) ELSE data.content
      c3 == [c2 EXCEPT !.stats.bytesReceived = @ + Len(text)]
      serialized == JsonParseText(text)
  IN  IF binary /\ isBinaryProtocol(data.content)
      THEN IF ~parsed.ok THEN [c |-> onDecodeError(c2), reg |-> quiet]
           ELSE IF parsed.type \in {2, 3} THEN [c |-> c2, reg |-> quiet]
           ELSE IF parsed.hasEvent /\ parsed.event # <<>>
                THEN dispatchEvent(c2, reg, EventOf(parsed.event))
           ELSE [c |-> c2, reg |-> quiet]
      ELSE IF ~serialized.ok THEN [c |-> onDecodeError(c3), reg |-> quiet]
      ELSE IF ~deserializeText(serialized).defined
           THEN [c |-> onDecodeError(c3), reg |-> quiet]
      ELSE dispatchEvent(c3, reg, deserializeText(serialized).event)

\* frames of the protocol: EVENT frames for an application name and for the
\* four lifecycle names, and PONG
GoodFrames ==
  {encodeMessage(Spelling[n], "fortyTwo").frame :
     n \in {"chat", "connect", "disconnect", "error", "reconnect"}}
  \cup {createPong}

\* frames with a tag of the protocol that do not decode: the length field
\* missing, the name truncated, the payload no JSON
BadFrames == {<<1>>, <<1, 0, 5>>, <<1, 0, 1, 97, 123>>}

\* what a transport can deliver: frames, a buffer with an unknown tag, and
\* text messages
InboundData ==
  {[binary |-> TRUE, content |-> f] : f \in GoodFrames \cup BadFrames \cup {<<255>>}}
  \cup {[binary |-> FALSE, content |-> MessageText("chat")],
        [binary |-> FALSE, content |-> <<123>>]}

MaxOffline == 1

\* emit(event, data) with a short name
EmitShort ==
  /\ nextId < MaxOffline
  /\ LET r == emit(Self, [id |-> nextId + 1, nameLen |-> 4, queued |-> FALSE])
     IN  /\ Commit(r.c)
         /\ emitRet' = r.ret
  /\ nextId' = nextId + 1
  /\ UNCHANGED <<maxSize, disconnectCalled, lastCloseOrigin, harnessVars, auxVars>>

\* handler 1 is registered for "chat", handler 2 on the four lifecycle
\* channels; no handler throws
InitInbound ==
  /\ InitClient
  /\ options = DefaultOptions
  /\ maxSize = MaxCapacity
  /\ backoff = <<>>
  /\ dispatch = <<>>
  /\ codec = [data |-> [binary |-> FALSE, content |-> <<>>]]
  /\ server = <<>>
  /\ registry =
         on(on(on(on(on([throwing |-> {},
                         eventHandlers |-> [e \in EventNames \ ReservedNames |-> <<>>],
                         lifecycleHandlers |-> [e \in ReservedNames |-> <<>>],
                         since |-> [x \in EventNames \X HandlerIds |-> 0],
                         calls |-> 0, inbound |-> 0, event |-> "",
                         invoked |-> <<>>, reported |-> 0],
                        "chat", 1), "connect", 2), "disconnect", 2), "error", 2),
            "reconnect", 2)

\* an open transport delivers a message; codec.data remembers it
Message ==
  /\ registry.inbound < MaxMessages
  /\ \E t \in Transports : readyState[t] = "OPEN"
  /\ \E data \in InboundData :
       LET r == onMessage(Self, registry, data)
       IN  /\ Commit(r.c)
           /\ registry' = r.reg
           /\ codec' = [data |-> data]
  /\ UNCHANGED <<maxSize, nextId, emitRet, disconnectCalled, lastCloseOrigin,
                 harnessVars, backoff, dispatch, server>>

NextInbound ==
  \/ Connect
  \/ Disconnect
  \/ EmitShort
  \/ TransportOpen
  \/ TransportClose
  \/ ReconnectTimerFire
  \/ Message

SpecInbound == InitInbound /\ [][NextInbound]_vars

\* a step in which a transport delivers a message
MessageDelivered == registry'.inbound = registry.inbound + 1

\* the message delivered is a buffer that carries a tag of the protocol and
\* does not decode
UndecodableDelivered ==
  /\ MessageDelivered
  /\ codec'.data.binary
  /\ isBinaryProtocol(codec'.data.content)
  /\ ~decodeMessage(codec'.data.content).ok

\* C26: an inbound binary frame that is recognized by its tag but fails to
\* decode is reported as one error, invokes no event handler and leaves the
\* connection state, the transports, the timers and the offline queue as
\* they were: it neither closes the transport nor triggers a reconnect.
C26_UndecodableFrameOnlyReported ==
  [][UndecodableDelivered
       => /\ errors' = errors + 1
          /\ registry'.invoked = <<>>
          /\ state' = state
          /\ ws' = ws
          /\ readyState' = readyState
          /\ reconnectTimer' = reconnectTimer
          /\ connectionTimer' = connectionTimer
          /\ pingTimer' = pingTimer
          /\ stray' = stray
          /\ messageQueue' = messageQueue
          /\ sent' = sent
          /\ stats'.reconnectAttempts = stats.reconnectAttempts
          /\ reconnectNotified' = reconnectNotified
          /\ disconnectNotified' = disconnectNotified]_vars

C26_Witness ==
  /\ registry.inbound > 0
  /\ codec.data = [binary |-> TRUE, content |-> <<1, 0, 5>>]
  /\ errors = 1
  /\ registry.invoked = <<>>
  /\ messageQueue # <<>>
  /\ \E t \in Transports : readyState[t] = "OPEN"

\* the handler h is registered on the lifecycle channel named e
OnLifecycleChannel(reg, e, h) ==
  \E i \in 1..Len(reg.lifecycleHandlers[e]) : reg.lifecycleHandlers[e][i] = h

\* C30: an inbound message whose event name is connect, disconnect, error or
\* reconnect invokes no handler registered on the lifecycle channel of that
\* name, and no inbound message notifies the disconnect or reconnect
\* handlers: only the client's own transitions do.
C30_LifecycleNamesNotDispatched ==
  [][MessageDelivered
       => /\ registry'.event \in ReservedNames
               => \A i \in 1..Len(registry'.invoked) :
                    ~OnLifecycleChannel(registry', registry'.event, registry'.invoked[i])
          /\ reconnectNotified' = reconnectNotified
          /\ disconnectNotified' = disconnectNotified]_vars

C30_Witness ==
  /\ registry.inbound > 0
  /\ registry.event = "connect"
  /\ OnLifecycleChannel(registry, "connect", 2)
  /\ registry.invoked = <<>>

\* the size of the message delivered: the bytes of a buffer, the length of
\* a string
DeliveredSize == Len(codec'.data.content)

\* C31: every inbound message adds exactly 1 to stats.messagesReceived and
\* exactly its size, counted once, to stats.bytesReceived, whether it is a
\* protocol frame, a buffer that is no protocol frame, or a text.
C31_ReceivedCountedOnce ==
  [][MessageDelivered
       => /\ stats'.messagesReceived = stats.messagesReceived + 1
          /\ stats'.bytesReceived = stats.bytesReceived + DeliveredSize]_vars

\* ------------------------------------------------------ the server's end

MaxServerEmits == 2

\* what ws.send returns on an open socket: 1 (sent), 0 (sent once the
\* backpressure has drained) or 2 (dropped)
SendStatuses == {0, 1, 2}

\* UltraSocket.emit(event, data) on the socket of connection t, for the
\* number 42 as data: a frame of the protocol, or JSON.stringify({event,
\* data}) as a text message; ws.send throws on a closed socket
socketEmit(srv, t, n, status) ==
  LET encoded == encodeMessage(Spelling[n], "fortyTwo")
      data == IF srv.binaryProtocol
              THEN [binary |-> TRUE, content |-> encoded.frame]
              ELSE [binary |-> FALSE, content |-> PlainText(n)]
  IN  IF srv.binaryProtocol /\ ~encoded.ok THEN [srv EXCEPT !.returned = FALSE]
      ELSE IF srv.sockets[t] # "open" THEN [srv EXCEPT !.returned = FALSE]
      ELSE [srv EXCEPT
              !.wire[t] = IF status = 2 THEN @
                          ELSE Append(@, [event |-> n, data |-> data]),
              !.returned = (status = 1)]

\* the members of a uWebSockets.js WebSocket that createUltraSocket reads:
\* all of them methods, on an open and on a closed socket alike
WebSocketMember(name) ==
  IF name \in {"getUserData", "send", "end", "close"} THEN "function" ELSE "undefined"

\* the values JavaScript takes for true in a condition
JsTruthy(v) == v \notin {"undefined", "null", "false"}

\* the getter connected of the UltraSocket of connection t: !ws.close
connected(srv, t) == ~JsTruthy(WebSocketMember("close"))

\* a client and a server, each with or without the binary protocol; the
\* client has handler 1 registered for "chat"
InitFallback ==
  /\ InitClient
  /\ options \in [autoReconnect : {TRUE},
                  maxReconnectAttempts : {0},
                  binaryProtocol : BOOLEAN,
                  urlValid : {TRUE}]
  /\ maxSize = MaxCapacity
  /\ backoff = <<>>
  /\ dispatch = <<>>
  /\ codec = [data |-> [binary |-> FALSE, content |-> <<>>], event |-> ""]
  /\ registry =
       on([throwing |-> {},
           eventHandlers |-> [e \in EventNames \ ReservedNames |-> <<>>],
           lifecycleHandlers |-> [e \in ReservedNames |-> <<>>],
           since |-> [x \in EventNames \X HandlerIds |-> 0],
           calls |-> 0, inbound |-> 0, event |-> "",
           invoked |-> <<>>, reported |-> 0],
          "chat", 1)
  /\ \E b \in BOOLEAN :
       server = [binaryProtocol |-> b,
                 sockets |-> [t \in Transports |-> "none"],
                 wire |-> [t \in Transports |-> <<>>],
                 emits |-> 0, returned |-> FALSE]

\* the server accepts the connection the client is opening: its open handler
ServerOpen ==
  /\ \E t \in Transports :
       /\ readyState[t] = "CONNECTING"
       /\ server.sockets[t] = "none"
       /\ server' = [server EXCEPT !.sockets[t] = "open"]
  /\ UNCHANGED <<clientVars, harnessVars, backoff, dispatch, registry, codec>>

\* a handler of the server calls emit on the UltraSocket of a connection
ServerEmit ==
  /\ server.emits < MaxServerEmits
  /\ \E t \in Transports, n \in EventNames \ ReservedNames, status \in SendStatuses :
       /\ server.sockets[t] # "none"
       /\ server' = [socketEmit(server, t, n, status) EXCEPT !.emits = @ + 1]
  /\ UNCHANGED <<clientVars, harnessVars, backoff, dispatch, registry, codec>>

\* the socket of a connection closes at the server: its close handler
ServerClose ==
  /\ \E t \in Transports :
       /\ server.sockets[t] = "open"
       /\ server' = [server EXCEPT !.sockets[t] = "closed"]
  /\ UNCHANGED <<clientVars, harnessVars, backoff, dispatch, registry, codec>>

\* the client's open transport delivers the oldest message the server sent
\* on that connection; codec remembers it
Deliver ==
  /\ \E t \in Transports :
       /\ readyState[t] = "OPEN"
       /\ server.wire[t] # <<>>
       /\ LET m == Head(server.wire[t])
              r == onMessage(Self, registry, m.data)
          IN  /\ Commit(r.c)
              /\ registry' = r.reg
              /\ codec' = [data |-> m.data, event |-> m.event]
              /\ server' = [server EXCEPT !.wire[t] = Tail(@)]
  /\ UNCHANGED <<maxSize, nextId, emitRet, disconnectCalled, lastCloseOrigin,
                 harnessVars, backoff, dispatch>>

NextFallback ==
  \/ Connect
  \/ TransportOpen
  \/ TransportClose
  \/ ReconnectTimerFire
  \/ ServerOpen
  \/ ServerEmit
  \/ ServerClose
  \/ Deliver

SpecFallback == InitFallback /\ [][NextFallback]_vars

\* the handlers the client has registered for the event e
HandlersFor(reg, e) ==
  IF e \in DOMAIN reg.eventHandlers THEN reg.eventHandlers[e] ELSE <<>>

\* C32: with binaryProtocol disabled on both sides, an event the server sent
\* with UltraSocket.emit is decoded by the client's text path to the same
\* event and delivered to the handlers registered for it, and is not
\* reported as an error.
C32_TextFallbackDelivered ==
  [][(MessageDelivered /\ ~options.binaryProtocol /\ ~server.binaryProtocol)
       => /\ registry'.event = codec'.event
          /\ registry'.invoked = HandlersFor(registry, codec'.event)
          /\ errors' = errors]_vars

\* C33: the connected property of a server-side UltraSocket is true while
\* the underlying socket is open and false once it has been closed.
C33_ConnectedWhileOpen ==
  \A t \in Transports :
    /\ server.sockets[t] = "open" => connected(server, t)
    /\ server.sockets[t] = "closed" => ~connected(server, t)

====
